---------------------------- MODULE Spec2Model ----------------------------
(***************************************************************************)
(* A model of the LC-3 execution core of fudanchii/lc3: the register file  *)
(* (src/src/register.rs), the helpers of src/src/lib.rs, the engine CPU of *)
(* src/src/cpu.rs, and the engine VM of src/src/vm.rs with the loop of     *)
(* src/src/main.rs.  Words are 16 bits wide and every arithmetic operation *)
(* keeps that width.                                                       *)
(***************************************************************************)
EXTENDS Integers, Sequences, FiniteSets, TLC

VARIABLES
    reg,        \* Register([u16; 10]): the ten slots of CPU.register
    memory,     \* CPU.memory, kept as the words that differ from 0
    result,     \* what the last call of tick returned ("none" before any)
    prev,       \* the register file and memory the last tick started from
    phase,      \* "new" (constructed), "ready" (image loaded), "dead" (panicked);
                \* under SpecVM also the position of main's loop
    ticks,      \* number of calls of tick (of next; of the register file's
                \* operations) so far
    running,    \* VM.running (CPU has no such field: FALSE under Spec)
    call        \* the last call of an operation of the register file or of
                \* lib.rs: its name, arguments and return value

vars == <<reg, memory, result, prev, phase, ticks, running, call>>

----------------------------------------------------------------------------
(* 16-bit words and the bit operations of Rust's u16.                      *)

Modulus == 65536

Word == 0 .. (Modulus - 1)

RECURSIVE BitAnd(_, _)
BitAnd(x, y) ==
    IF x = 0 \/ y = 0 THEN 0
    ELSE ((x % 2) * (y % 2)) + 2 * BitAnd(x \div 2, y \div 2)

BitOr(x, y) == x + y - BitAnd(x, y)

BitNot(x) == (Modulus - 1) - x

RECURSIVE Pow2(_)
Pow2(n) == IF n = 0 THEN 1 ELSE 2 * Pow2(n - 1)

Shr(x, n) == x \div Pow2(n)

Shl(x, n) == (x * Pow2(n)) % Modulus

wrapping_add(x, y) == (x + y) % Modulus

(* Result<T, String>                                                       *)
Ok(v) == [ok |-> TRUE, val |-> v, err |-> ""]

Err(e) == [ok |-> FALSE, val |-> 0, err |-> e]

----------------------------------------------------------------------------
(* src/src/register.rs                                                     *)

R6 == 6
R7 == 7
PC == 8
PSR == 9

RegIndex == 0 .. 9

Positive == 1
Zero == 2
Negative == 4

Privilege == 0
User == 1

R_try_from(val) ==
    IF val \in RegIndex THEN Ok(val) ELSE Err("register index out of bound")

Flag_try_from(val) ==
    LET v == BitAnd(val, 7)
    IN  IF v \in {Positive, Zero, Negative} THEN Ok(v)
        ELSE Err("wrong overflow flag")

PL_try_from(val) ==
    LET v == BitAnd(Shr(val, 7), 7)
    IN  IF v \in 0 .. 7 THEN Ok(v) ELSE Err("wrong priority level")

Mode_try_from(val) ==
    LET v == Shr(val, 15)
    IN  IF v \in {Privilege, User} THEN Ok(v) ELSE Err("wrong mode")

Register_new == [r \in RegIndex |-> 0]

(* write that stores into the slot after r.                                *)
write_next_slot(rf, r, val) == [rf EXCEPT ![(r + 1) % 10] = val]

write(rf, r, val) == [rf EXCEPT ![r] = val]

read(rf, r) == rf[r]

(* incr computes read(r) + 1 in u16: with overflow checks (oc) the build   *)
(* panics on 0xFFFF + 1, without them the sum wraps.                       *)
incr(rf, r, oc) ==
    IF read(rf, r) + 1 >= Modulus
    THEN IF oc THEN [panic |-> TRUE, rf |-> rf]
               ELSE [panic |-> FALSE, rf |-> write(rf, r, 0)]
    ELSE [panic |-> FALSE, rf |-> write(rf, r, read(rf, r) + 1)]

read_incr(rf, r, oc) ==
    LET val == read(rf, r)
        i   == incr(rf, r, oc)
    IN  [panic |-> i.panic, rf |-> i.rf, val |-> val]

(* set_flag that stores the flag over the whole status word.               *)
set_flag_clobber(rf, f) == write(rf, PSR, f)

set_flag(rf, f) ==
    write(rf, PSR, BitOr(BitAnd(read(rf, PSR), 65528), f))   \* 0xfff8

(* update_flag without the arm for 0.                                      *)
update_flag_no_zero(rf, r) ==
    IF Shr(rf[r], 15) = 1 THEN set_flag(rf, Negative)
    ELSE set_flag(rf, Positive)

update_flag(rf, r) ==
    IF rf[r] = 0 THEN set_flag(rf, Zero)
    ELSE IF Shr(rf[r], 15) = 1 THEN set_flag(rf, Negative)
    ELSE set_flag(rf, Positive)

get_flag(rf) == Flag_try_from(BitAnd(read(rf, PSR), 7))

set_level(rf, lv) ==
    write(rf, PSR, BitOr(BitAnd(read(rf, PSR), 64639), Shl(lv, 7)))   \* 0xfc7f

get_level(rf) == PL_try_from(BitAnd(Shr(read(rf, PSR), 7), 7))

set_mode(rf, m) ==
    write(rf, PSR, BitOr(BitAnd(read(rf, PSR), 32767), Shl(m, 15)))   \* 0x7fff

get_mode(rf) == Mode_try_from(Shr(read(rf, PSR), 15))

----------------------------------------------------------------------------
(* src/src/lib.rs                                                          *)

reg_1st(instr) == R_try_from(BitAnd(Shr(instr, 9), 7))

reg_2nd(instr) == R_try_from(BitAnd(Shr(instr, 6), 7))

bit(args, nth) == BitAnd(Shr(args, nth), 1)

(* sign_extend that tests bit bitcount instead of bit bitcount - 1.        *)
sign_extend_bit_above(x, bitcount) ==
    IF bit(x, bitcount) = 1
    THEN BitOr(x, Shl(65535, bitcount))
    ELSE x

sign_extend(x, bitcount) ==
    IF bit(x, bitcount - 1) = 1
    THEN BitOr(x, Shl(65535, bitcount))
    ELSE x

----------------------------------------------------------------------------
(* src/src/cpu.rs                                                          *)

OpCodes ==
    <<"BR", "ADD", "LD", "ST", "JSR", "AND", "LDR", "STR",
      "RTI", "NOT", "LDI", "STI", "JMP", "RES", "LEA", "TRAP">>

OpCode_try_from(val) ==
    IF val \in 0 .. 15 THEN Ok(OpCodes[val + 1]) ELSE Err("unknown opcode")

(* memory: [0; 65536]; a word that is absent from the map is 0.            *)
CPU_new == [register |-> Register_new, memory |-> <<>>]

mem_read(mem, addr) == IF addr \in DOMAIN mem THEN mem[addr] ELSE 0

mem_write(mem, addr, val) ==
    IF val = 0
    THEN [a \in (DOMAIN mem) \ {addr} |-> mem[a]]
    ELSE [a \in (DOMAIN mem) \cup {addr} |-> IF a = addr THEN val ELSE mem[a]]

reg_store(rf, r, val) == write(rf, r, val)

reg_load(rf, r) == read(rf, r)

(* What a handler, and tick, leave behind: the register file, the memory   *)
(* and the CycleResult ("ok" for Ok(()), the message for Err, "panic" for  *)
(* an arithmetic overflow panic).                                          *)
Done(rf, mem) == [reg |-> rf, memory |-> mem, result |-> "ok"]

Fail(rf, mem, e) == [reg |-> rf, memory |-> mem, result |-> e]

Panic(rf, mem) == [reg |-> rf, memory |-> mem, result |-> "panic"]

(* mnemonic_br that compares z with Positive and p with Zero.              *)
mnemonic_br_swapped(rf, mem, args) ==
    LET offset == sign_extend(BitAnd(args, 9), 9)
        nzp    == BitAnd(Shr(args, 9), 7)
        n      == bit(args, 11) = 1
        z      == bit(args, 10) = 1
        p      == bit(args, 9) = 1
        flag   == get_flag(rf)
    IN  IF nzp = 0
        THEN Done(write(rf, PC, wrapping_add(read(rf, PC), offset)), mem)
        ELSE IF ~flag.ok THEN Fail(rf, mem, flag.err)
        ELSE IF \/ (n /\ flag.val = Negative)
                \/ (z /\ flag.val = Positive)
                \/ (p /\ flag.val = Zero)
             THEN Done(write(rf, PC, wrapping_add(read(rf, PC), offset)), mem)
             ELSE Done(rf, mem)

(* mnemonic_br that moves the program counter before it reads the flag.    *)
mnemonic_br_write_first(rf, mem, args) ==
    LET offset == sign_extend(BitAnd(args, 9), 9)
        nzp    == BitAnd(Shr(args, 9), 7)
        n      == bit(args, 11) = 1
        z      == bit(args, 10) = 1
        p      == bit(args, 9) = 1
        flag   == get_flag(rf)
        rf1    == write(rf, PC, wrapping_add(read(rf, PC), offset))
    IN  IF nzp = 0 THEN Done(rf1, mem)
        ELSE IF ~flag.ok THEN Fail(rf1, mem, flag.err)
        ELSE IF \/ (n /\ flag.val = Negative)
                \/ (z /\ flag.val = Zero)
                \/ (p /\ flag.val = Positive)
             THEN Done(rf1, mem)
             ELSE Done(rf, mem)

(* mnemonic_br that reads the flag before it looks at the NZP bits.        *)
mnemonic_br_flag_first(rf, mem, args) ==
    LET offset == sign_extend(BitAnd(args, 9), 9)
        nzp    == BitAnd(Shr(args, 9), 7)
        n      == bit(args, 11) = 1
        z      == bit(args, 10) = 1
        p      == bit(args, 9) = 1
        flag   == get_flag(rf)
    IN  IF ~flag.ok THEN Fail(rf, mem, flag.err)
        ELSE IF nzp = 0
        THEN Done(write(rf, PC, wrapping_add(read(rf, PC), offset)), mem)
        ELSE IF \/ (n /\ flag.val = Negative)
                \/ (z /\ flag.val = Zero)
                \/ (p /\ flag.val = Positive)
             THEN Done(write(rf, PC, wrapping_add(read(rf, PC), offset)), mem)
             ELSE Done(rf, mem)

mnemonic_br(rf, mem, args) ==
    LET offset == sign_extend(BitAnd(args, 9), 9)      \* args & 0x9
        nzp    == BitAnd(Shr(args, 9), 7)
        n      == bit(args, 11) = 1
        z      == bit(args, 10) = 1
        p      == bit(args, 9) = 1
        flag   == get_flag(rf)
    IN  IF nzp = 0
        THEN Done(write(rf, PC, wrapping_add(read(rf, PC), offset)), mem)
        ELSE IF ~flag.ok THEN Fail(rf, mem, flag.err)
        ELSE IF \/ (n /\ flag.val = Negative)
                \/ (z /\ flag.val = Zero)
                \/ (p /\ flag.val = Positive)
             THEN Done(write(rf, PC, wrapping_add(read(rf, PC), offset)), mem)
             ELSE Done(rf, mem)

(* mnemonic_imm5_or_sr2 that takes the immediate without sign extension.   *)
mnemonic_imm5_or_sr2_unsigned(rf, mem, args, func) ==
    LET r0       == reg_1st(args)
        r1       == reg_2nd(args)
        imm_flag == bit(args, 5)
        r2       == R_try_from(BitAnd(args, 7))
    IN  IF imm_flag = 1
        THEN Done(update_flag(
                    write(rf, r0.val,
                          func[<<read(rf, r1.val), BitAnd(args, 31)>>]),
                    r0.val), mem)
        ELSE Done(update_flag(
                    write(rf, r0.val,
                          func[<<read(rf, r1.val), read(rf, r2.val)>>]),
                    r0.val), mem)

(* func is the closure the caller passes, as a function on pairs of words. *)
mnemonic_imm5_or_sr2(rf, mem, args, func) ==
    LET r0       == reg_1st(args)
        r1       == reg_2nd(args)
        imm_flag == bit(args, 5)
        r2       == R_try_from(BitAnd(args, 7))
    IN  IF ~r0.ok THEN Fail(rf, mem, r0.err)
        ELSE IF ~r1.ok THEN Fail(rf, mem, r1.err)
        ELSE IF imm_flag = 1
        THEN Done(update_flag(
                    write(rf, r0.val,
                          func[<<read(rf, r1.val),
                                 sign_extend(BitAnd(args, 31), 5)>>]),
                    r0.val), mem)
        ELSE IF ~r2.ok THEN Fail(rf, mem, r2.err)
        ELSE Done(update_flag(
                    write(rf, r0.val,
                          func[<<read(rf, r1.val), read(rf, r2.val)>>]),
                    r0.val), mem)

mnemonic_add(rf, mem, args) ==
    mnemonic_imm5_or_sr2(rf, mem, args,
        [v \in Word \X Word |-> wrapping_add(v[1], v[2])])

mnemonic_and(rf, mem, args) ==
    mnemonic_imm5_or_sr2(rf, mem, args,
        [v \in Word \X Word |-> BitAnd(v[1], v[2])])

(* mnemonic_ldi that reads memory once.                                    *)
mnemonic_ldi_direct(rf, mem, args) ==
    LET r0        == reg_1st(args)
        pc_offset == sign_extend(BitAnd(args, 511), 9)
    IN  Done(update_flag(
               write(rf, r0.val,
                     mem_read(mem, wrapping_add(read(rf, PC), pc_offset))),
               r0.val), mem)

mnemonic_ldi(rf, mem, args) ==
    LET r0        == reg_1st(args)
        pc_offset == sign_extend(BitAnd(args, 511), 9)
    IN  IF ~r0.ok THEN Fail(rf, mem, r0.err)
        ELSE Done(update_flag(
                    write(rf, r0.val,
                          mem_read(mem,
                            mem_read(mem,
                              wrapping_add(read(rf, PC), pc_offset)))),
                    r0.val), mem)

mnemonic_ld(rf, mem, args) ==
    LET r0     == reg_1st(args)
        offset == sign_extend(BitAnd(args, 511), 9)
    IN  IF ~r0.ok THEN Fail(rf, mem, r0.err)
        ELSE Done(update_flag(
                    write(rf, r0.val,
                          mem_read(mem, wrapping_add(read(rf, PC), offset))),
                    r0.val), mem)

mnemonic_st(rf, mem, args) ==
    LET r0     == reg_1st(args)
        offset == sign_extend(BitAnd(args, 511), 9)
    IN  IF ~r0.ok THEN Fail(rf, mem, r0.err)
        ELSE Done(rf, mem_write(mem, wrapping_add(read(rf, PC), offset),
                                read(rf, r0.val)))

(* mnemonic_res that reports success.                                      *)
mnemonic_res_ok(rf, mem, args) == Done(rf, mem)

mnemonic_res(rf, mem, args) == Fail(rf, mem, "reserved opcode")

(* mnemonic_jsr that writes R7 after the jump.                             *)
mnemonic_jsr_link_after(rf, mem, args) ==
    LET mode == bit(args, 11)
        r0   == reg_2nd(args)
        rf1  == IF mode = 1
                THEN write(rf, PC,
                           wrapping_add(read(rf, PC),
                                        sign_extend(BitAnd(args, 2047), 11)))
                ELSE write(rf, PC, read(rf, r0.val))
    IN  Done(write(rf1, R7, read(rf1, PC)), mem)

mnemonic_jsr(rf, mem, args) ==
    LET mode == bit(args, 11)
        rf1  == write(rf, R7, read(rf, PC))
        r0   == reg_2nd(args)
    IN  IF mode = 1
        THEN Done(write(rf1, PC,
                        wrapping_add(read(rf1, PC),
                                     sign_extend(BitAnd(args, 2047), 11))),
                  mem)
        ELSE IF ~r0.ok THEN Fail(rf1, mem, r0.err)
        ELSE Done(write(rf1, PC, read(rf1, r0.val)), mem)

mnemonic_ldr(rf, mem, args) ==
    LET r0     == reg_1st(args)
        r1     == reg_2nd(args)
        offset == sign_extend(BitAnd(args, 63), 6)
    IN  IF ~r0.ok THEN Fail(rf, mem, r0.err)
        ELSE IF ~r1.ok THEN Fail(rf, mem, r1.err)
        ELSE Done(update_flag(
                    write(rf, r0.val,
                          mem_read(mem,
                                   wrapping_add(read(rf, r1.val), offset))),
                    r0.val), mem)

mnemonic_str(rf, mem, args) ==
    LET r0     == reg_1st(args)
        r1     == reg_2nd(args)
        offset == sign_extend(BitAnd(args, 511), 9)
    IN  IF ~r0.ok THEN Fail(rf, mem, r0.err)
        ELSE IF ~r1.ok THEN Fail(rf, mem, r1.err)
        ELSE Done(rf, mem_write(mem, wrapping_add(read(rf, r1.val), offset),
                                read(rf, r0.val)))

(* mnemonic_rti with the two pops in the other order.                      *)
mnemonic_rti_psr_first(rf, mem, args, oc) ==
    LET a1   == read_incr(rf, R6, oc)
        rf1  == write(a1.rf, PSR, mem_read(mem, a1.val))
        a2   == read_incr(rf1, R6, oc)
        rf2  == write(a2.rf, PC, mem_read(mem, a2.val))
    IN  IF a1.panic THEN Panic(a1.rf, mem)
        ELSE IF a2.panic THEN Panic(a2.rf, mem)
        ELSE Done(rf2, mem)

(* get_mode()? == Mode::Privilege pops PC, then PSR, from the address in   *)
(* R6; each read_incr may panic on overflow, after the writes before it.   *)
mnemonic_rti(rf, mem, args, oc) ==
    LET mode == get_mode(rf)
        a1   == read_incr(rf, R6, oc)
        rf1  == write(a1.rf, PC, mem_read(mem, a1.val))
        a2   == read_incr(rf1, R6, oc)
        rf2  == write(a2.rf, PSR, mem_read(mem, a2.val))
    IN  IF ~mode.ok THEN Fail(rf, mem, mode.err)
        ELSE IF mode.val = Privilege
        THEN IF a1.panic THEN Panic(a1.rf, mem)
             ELSE IF a2.panic THEN Panic(a2.rf, mem)
             ELSE Done(rf2, mem)
        ELSE Fail(rf, mem, "illegal RTI from user mode")

mnemonic_not(rf, mem, args) ==
    LET r0 == reg_1st(args)
        r1 == reg_2nd(args)
    IN  IF ~r0.ok THEN Fail(rf, mem, r0.err)
        ELSE IF ~r1.ok THEN Fail(rf, mem, r1.err)
        ELSE Done(update_flag(write(rf, r0.val, BitNot(read(rf, r1.val))),
                              r0.val), mem)

mnemonic_sti(rf, mem, args) ==
    LET r0     == reg_1st(args)
        offset == sign_extend(BitAnd(args, 511), 9)
    IN  IF ~r0.ok THEN Fail(rf, mem, r0.err)
        ELSE Done(rf, mem_write(mem,
                                mem_read(mem,
                                         wrapping_add(read(rf, PC), offset)),
                                read(rf, r0.val)))

mnemonic_jmp(rf, mem, args) ==
    LET r0 == reg_2nd(args)
    IN  IF ~r0.ok THEN Fail(rf, mem, r0.err)
        ELSE Done(write(rf, PC, read(rf, r0.val)), mem)

mnemonic_lea(rf, mem, args) ==
    LET r0     == reg_1st(args)
        offset == sign_extend(BitAnd(args, 511), 9)
    IN  IF ~r0.ok THEN Fail(rf, mem, r0.err)
        ELSE Done(update_flag(
                    write(rf, r0.val, wrapping_add(read(rf, PC), offset)),
                    r0.val), mem)

mnemonic_trap(rf, mem, args) ==
    LET rf1 == write(rf, R7, read(rf, PC))
    IN  Done(write(rf1, PC, mem_read(mem, BitAnd(args, 255))), mem)

(* One execution step: fetch with read_incr(PC), decode, dispatch.         *)
tick(rf, mem, oc) ==
    LET f      == read_incr(rf, PC, oc)
        instr  == mem_read(mem, f.val)
        opcode == OpCode_try_from(Shr(instr, 12))
        op     == opcode.val
    IN  IF f.panic THEN Panic(f.rf, mem)
        ELSE IF ~opcode.ok THEN Fail(f.rf, mem, opcode.err)
        ELSE CASE op = "BR"   -> mnemonic_br(f.rf, mem, instr)
               [] op = "ADD"  -> mnemonic_add(f.rf, mem, instr)
               [] op = "LD"   -> mnemonic_ld(f.rf, mem, instr)
               [] op = "ST"   -> mnemonic_st(f.rf, mem, instr)
               [] op = "JSR"  -> mnemonic_jsr(f.rf, mem, instr)
               [] op = "AND"  -> mnemonic_and(f.rf, mem, instr)
               [] op = "LDR"  -> mnemonic_ldr(f.rf, mem, instr)
               [] op = "STR"  -> mnemonic_str(f.rf, mem, instr)
               [] op = "RTI"  -> mnemonic_rti(f.rf, mem, instr, oc)
               [] op = "NOT"  -> mnemonic_not(f.rf, mem, instr)
               [] op = "LDI"  -> mnemonic_ldi(f.rf, mem, instr)
               [] op = "STI"  -> mnemonic_sti(f.rf, mem, instr)
               [] op = "JMP"  -> mnemonic_jmp(f.rf, mem, instr)
               [] op = "RES"  -> mnemonic_res(f.rf, mem, instr)
               [] op = "LEA"  -> mnemonic_lea(f.rf, mem, instr)
               [] op = "TRAP" -> mnemonic_trap(f.rf, mem, instr)

----------------------------------------------------------------------------
(* src/src/vm.rs: the engine VM, which has its own copy of the opcode      *)
(* decoder and of every handler, and the field running.                    *)

VM_OpCode_try_from(val) ==
    IF val \in 0 .. 15 THEN Ok(OpCodes[val + 1]) ELSE Err("unknown opcode")

VM_default == [memory |-> <<>>, register |-> Register_new, running |-> FALSE]

VM_is_running(run) == run

(* abort that leaves running as it is.                                     *)
VM_abort_keep(run) == run

VM_abort(run) == FALSE

(* memory is the array [u16; 65536], held here as the map of its non-zero *)
(* cells: a cell that is not in the map holds 0.                           *)
read_memory(mem, addr) == IF addr \in DOMAIN mem THEN mem[addr] ELSE 0

write_memory(mem, addr, val) ==
    IF val = 0
    THEN [a \in (DOMAIN mem) \ {addr} |-> mem[a]]
    ELSE [a \in (DOMAIN mem) \cup {addr} |-> IF a = addr THEN val ELSE mem[a]]

VM_mnemonic_br(rf, mem, args) ==
    LET offset == sign_extend(BitAnd(args, 9), 9)      \* args & 0x9
        nzp    == BitAnd(Shr(args, 9), 7)
        n      == bit(args, 11) = 1
        z      == bit(args, 10) = 1
        p      == bit(args, 9) = 1
        flag   == get_flag(rf)
    IN  IF nzp = 0
        THEN Done(write(rf, PC, wrapping_add(read(rf, PC), offset)), mem)
        ELSE IF ~flag.ok THEN Fail(rf, mem, flag.err)
        ELSE IF \/ (n /\ flag.val = Negative)
                \/ (z /\ flag.val = Zero)
                \/ (p /\ flag.val = Positive)
             THEN Done(write(rf, PC, wrapping_add(read(rf, PC), offset)), mem)
             ELSE Done(rf, mem)

VM_mnemonic_imm5_or_sr2(rf, mem, args, func) ==
    LET r0       == reg_1st(args)
        r1       == reg_2nd(args)
        imm_flag == bit(args, 5)
        r2       == R_try_from(BitAnd(args, 7))
    IN  IF ~r0.ok THEN Fail(rf, mem, r0.err)
        ELSE IF ~r1.ok THEN Fail(rf, mem, r1.err)
        ELSE IF imm_flag = 1
        THEN Done(update_flag(
                    write(rf, r0.val,
                          func[<<read(rf, r1.val),
                                 sign_extend(BitAnd(args, 31), 5)>>]),
                    r0.val), mem)
        ELSE IF ~r2.ok THEN Fail(rf, mem, r2.err)
        ELSE Done(update_flag(
                    write(rf, r0.val,
                          func[<<read(rf, r1.val), read(rf, r2.val)>>]),
                    r0.val), mem)

VM_mnemonic_add(rf, mem, args) ==
    VM_mnemonic_imm5_or_sr2(rf, mem, args,
        [v \in Word \X Word |-> wrapping_add(v[1], v[2])])

VM_mnemonic_and(rf, mem, args) ==
    VM_mnemonic_imm5_or_sr2(rf, mem, args,
        [v \in Word \X Word |-> BitAnd(v[1], v[2])])

VM_mnemonic_ldi(rf, mem, args) ==
    LET r0        == reg_1st(args)
        pc_offset == sign_extend(BitAnd(args, 511), 9)
    IN  IF ~r0.ok THEN Fail(rf, mem, r0.err)
        ELSE Done(update_flag(
                    write(rf, r0.val,
                          read_memory(mem,
                            read_memory(mem,
                              wrapping_add(read(rf, PC), pc_offset)))),
                    r0.val), mem)

VM_mnemonic_ld(rf, mem, args) ==
    LET r0     == reg_1st(args)
        offset == sign_extend(BitAnd(args, 511), 9)
    IN  IF ~r0.ok THEN Fail(rf, mem, r0.err)
        ELSE Done(update_flag(
                    write(rf, r0.val,
                          read_memory(mem,
                                      wrapping_add(read(rf, PC), offset))),
                    r0.val), mem)

VM_mnemonic_st(rf, mem, args) ==
    LET r0     == reg_1st(args)
        offset == sign_extend(BitAnd(args, 511), 9)
    IN  IF ~r0.ok THEN Fail(rf, mem, r0.err)
        ELSE Done(rf, write_memory(mem, wrapping_add(read(rf, PC), offset),
                                   read(rf, r0.val)))

VM_mnemonic_res(rf, mem, args) == Fail(rf, mem, "reserved opcode")

VM_mnemonic_jsr(rf, mem, args) ==
    LET mode == bit(args, 11)
        rf1  == write(rf, R7, read(rf, PC))
        r0   == reg_2nd(args)
    IN  IF mode = 1
        THEN Done(write(rf1, PC,
                        wrapping_add(read(rf1, PC),
                                     sign_extend(BitAnd(args, 2047), 11))),
                  mem)
        ELSE IF ~r0.ok THEN Fail(rf1, mem, r0.err)
        ELSE Done(write(rf1, PC, read(rf1, r0.val)), mem)

VM_mnemonic_ldr(rf, mem, args) ==
    LET r0     == reg_1st(args)
        r1     == reg_2nd(args)
        offset == sign_extend(BitAnd(args, 63), 6)
    IN  IF ~r0.ok THEN Fail(rf, mem, r0.err)
        ELSE IF ~r1.ok THEN Fail(rf, mem, r1.err)
        ELSE Done(update_flag(
                    write(rf, r0.val,
                          read_memory(mem,
                                      wrapping_add(read(rf, r1.val), offset))),
                    r0.val), mem)

VM_mnemonic_str(rf, mem, args) ==
    LET r0     == reg_1st(args)
        r1     == reg_2nd(args)
        offset == sign_extend(BitAnd(args, 511), 9)
    IN  IF ~r0.ok THEN Fail(rf, mem, r0.err)
        ELSE IF ~r1.ok THEN Fail(rf, mem, r1.err)
        ELSE Done(rf, write_memory(mem,
                                   wrapping_add(read(rf, r1.val), offset),
                                   read(rf, r0.val)))

(* The handlers above leave running alone; mnemonic_rti calls abort before *)
(* it returns the user-mode error.                                         *)
VM_Keep(h, run) ==
    [reg |-> h.reg, memory |-> h.memory, result |-> h.result, running |-> run]

(* mnemonic_rti that takes the mode from PSR bit 15 itself.                *)
VM_mnemonic_rti_bit15(rf, mem, run, args, oc) ==
    LET a1   == read_incr(rf, R6, oc)
        rf1  == write(a1.rf, PC, read_memory(mem, a1.val))
        a2   == read_incr(rf1, R6, oc)
        rf2  == write(a2.rf, PSR, read_memory(mem, a2.val))
    IN  IF Shr(read(rf, PSR), 15) = Privilege
        THEN IF a1.panic THEN VM_Keep(Panic(a1.rf, mem), run)
             ELSE IF a2.panic THEN VM_Keep(Panic(a2.rf, mem), run)
             ELSE VM_Keep(Done(rf2, mem), run)
        ELSE VM_Keep(Fail(rf, mem, "illegal RTI from user mode"),
                     VM_abort(run))

VM_mnemonic_rti(rf, mem, run, args, oc) ==
    LET mode == get_mode(rf)
        a1   == read_incr(rf, R6, oc)
        rf1  == write(a1.rf, PC, read_memory(mem, a1.val))
        a2   == read_incr(rf1, R6, oc)
        rf2  == write(a2.rf, PSR, read_memory(mem, a2.val))
    IN  IF ~mode.ok THEN VM_Keep(Fail(rf, mem, mode.err), run)
        ELSE IF mode.val = Privilege
        THEN IF a1.panic THEN VM_Keep(Panic(a1.rf, mem), run)
             ELSE IF a2.panic THEN VM_Keep(Panic(a2.rf, mem), run)
             ELSE VM_Keep(Done(rf2, mem), run)
        ELSE VM_Keep(Fail(rf, mem, "illegal RTI from user mode"),
                     VM_abort(run))

VM_mnemonic_not(rf, mem, args) ==
    LET r0 == reg_1st(args)
        r1 == reg_2nd(args)
    IN  IF ~r0.ok THEN Fail(rf, mem, r0.err)
        ELSE IF ~r1.ok THEN Fail(rf, mem, r1.err)
        ELSE Done(update_flag(write(rf, r0.val, BitNot(read(rf, r1.val))),
                              r0.val), mem)

VM_mnemonic_sti(rf, mem, args) ==
    LET r0     == reg_1st(args)
        offset == sign_extend(BitAnd(args, 511), 9)
    IN  IF ~r0.ok THEN Fail(rf, mem, r0.err)
        ELSE Done(rf, write_memory(mem,
                                   read_memory(mem,
                                     wrapping_add(read(rf, PC), offset)),
                                   read(rf, r0.val)))

VM_mnemonic_jmp(rf, mem, args) ==
    LET r0 == reg_2nd(args)
    IN  IF ~r0.ok THEN Fail(rf, mem, r0.err)
        ELSE Done(write(rf, PC, read(rf, r0.val)), mem)

VM_mnemonic_lea(rf, mem, args) ==
    LET r0     == reg_1st(args)
        offset == sign_extend(BitAnd(args, 511), 9)
    IN  IF ~r0.ok THEN Fail(rf, mem, r0.err)
        ELSE Done(update_flag(
                    write(rf, r0.val, wrapping_add(read(rf, PC), offset)),
                    r0.val), mem)

VM_mnemonic_trap(rf, mem, args) ==
    LET rf1 == write(rf, R7, read(rf, PC))
    IN  Done(write(rf1, PC, read_memory(mem, BitAnd(args, 255))), mem)

VM_next(rf, mem, run, oc) ==
    LET f      == read_incr(rf, PC, oc)
        instr  == read_memory(mem, f.val)
        opcode == VM_OpCode_try_from(Shr(instr, 12))
        op     == opcode.val
    IN  IF f.panic THEN VM_Keep(Panic(f.rf, mem), run)
        ELSE IF ~opcode.ok THEN VM_Keep(Fail(f.rf, mem, opcode.err), run)
        ELSE CASE op = "BR"   -> VM_Keep(VM_mnemonic_br(f.rf, mem, instr), run)
               [] op = "ADD"  -> VM_Keep(VM_mnemonic_add(f.rf, mem, instr), run)
               [] op = "LD"   -> VM_Keep(VM_mnemonic_ld(f.rf, mem, instr), run)
               [] op = "ST"   -> VM_Keep(VM_mnemonic_st(f.rf, mem, instr), run)
               [] op = "JSR"  -> VM_Keep(VM_mnemonic_jsr(f.rf, mem, instr), run)
               [] op = "AND"  -> VM_Keep(VM_mnemonic_and(f.rf, mem, instr), run)
               [] op = "LDR"  -> VM_Keep(VM_mnemonic_ldr(f.rf, mem, instr), run)
               [] op = "STR"  -> VM_Keep(VM_mnemonic_str(f.rf, mem, instr), run)
               [] op = "RTI"  -> VM_mnemonic_rti(f.rf, mem, run, instr, oc)
               [] op = "NOT"  -> VM_Keep(VM_mnemonic_not(f.rf, mem, instr), run)
               [] op = "LDI"  -> VM_Keep(VM_mnemonic_ldi(f.rf, mem, instr), run)
               [] op = "STI"  -> VM_Keep(VM_mnemonic_sti(f.rf, mem, instr), run)
               [] op = "JMP"  -> VM_Keep(VM_mnemonic_jmp(f.rf, mem, instr), run)
               [] op = "RES"  -> VM_Keep(VM_mnemonic_res(f.rf, mem, instr), run)
               [] op = "LEA"  -> VM_Keep(VM_mnemonic_lea(f.rf, mem, instr), run)
               [] op = "TRAP" -> VM_Keep(VM_mnemonic_trap(f.rf, mem, instr), run)

(* boot(args): the program counter is args.offset and the machine runs;    *)
(* args.image is not read.                                                 *)
VM_boot(rf, run, offset) == [reg |-> write(rf, PC, offset), running |-> TRUE]

----------------------------------------------------------------------------
(* The machine and its driver.  A machine is constructed (CPU::new), a     *)
(* harness stores a program image and register values through mem_write    *)
(* and reg_store, and tick is then called repeatedly.                      *)

MaxSteps == 2

PC_START == 12288                                   \* 0x3000

(* The data words of the images: pointers, a stack frame at 0x4000 and at  *)
(* the top of memory, two trap vectors.                                    *)
ImageData ==
    << <<12289, 32768>>,      \* 0x3001: RTI
       <<12290, 16384>>,      \* 0x3002: pointer to 0x4000
       <<12287, 65535>>,      \* 0x2FFF: 0xFFFF
       <<16384, 20480>>,      \* 0x4000: 0x5000
       <<16385, 3>>,          \* 0x4001: 0x0003
       <<37, 1024>>,          \* 0x0025: 0x0400
       <<255, 1280>>,         \* 0x00FF: 0x0500
       <<65533, 12291>>,      \* 0xFFFD: 0x3003
       <<65534, 32769>> >>    \* 0xFFFE: 0x8001

(* R0..R7 of the images: pairwise distinct, with both ends of the range.   *)
ImageRegs == <<5, 65535, 1, 3855, 32768, 32767, 16384, 4660>>

(* A sample of instruction words, a few of every opcode.                   *)
SampleInstrs ==
    { 0, 2, 9, 511, 513, 1025, 2049, 3593,          \* BR
      4195, 4673, 4735, 5119,                       \* ADD
      8193, 8702, 8703, 9727,                       \* LD
      12289, 13311,                                 \* ST
      16576, 16832, 18433, 20479,                   \* JSR
      20591, 21057, 21119,                          \* AND
      24960, 25025, 25023,                          \* LDR
      28993, 29119,                                 \* STR
      32768, 36863,                                 \* RTI
      36927, 37503,                                 \* NOT
      40961, 41471,                                 \* LDI
      45057, 45567,                                 \* STI
      49536, 49600,                                 \* JMP
      53248, 57343,                                 \* RES
      57345, 57855, 58368,                          \* LEA
      61477, 61695 }                                \* TRAP

SamplePSRs == {0, 1, 2, 4, 3, 7, 33668, 32761, 32770}

SampleR6s == {16384, 65533, 65534, 65535}

SampleOrigins == {PC_START, 65535}

(* Every instruction word of the opcodes BR, ADD, JSR, AND and LDI.        *)
WideInstrs == {w \in Word : Shr(w, 12) \in {0, 1, 4, 5, 10}}

(* A scenario: the instruction word at the origin, the origin, PSR and R6. *)
(* 0x8382 is user mode, priority 7, flag Zero.                             *)
Scenarios ==
    [instr : WideInstrs, origin : {PC_START}, psr : {33666}, r6 : {16384}]
    \cup
    [instr : SampleInstrs, origin : SampleOrigins,
     psr : SamplePSRs, r6 : SampleR6s]

RECURSIVE load_words(_, _)
load_words(mem, ws) ==
    IF ws = <<>> THEN mem
    ELSE load_words(mem_write(mem, Head(ws)[1], Head(ws)[2]), Tail(ws))

RECURSIVE store_regs(_, _, _)
store_regs(rf, vals, r) ==
    IF r > Len(vals) THEN rf
    ELSE store_regs(reg_store(rf, r - 1, vals[r]), vals, r + 1)

NoCall == [op |-> "none", arg1 |-> 0, arg2 |-> 0, ret |-> 0]

Init ==
    /\ reg = CPU_new.register
    /\ memory = CPU_new.memory
    /\ result = "none"
    /\ prev = [reg |-> CPU_new.register, memory |-> CPU_new.memory]
    /\ phase = "new"
    /\ ticks = 0
    /\ running = FALSE
    /\ call = NoCall

(* The harness loads the image and the registers of one scenario.          *)
Setup ==
    /\ phase = "new"
    /\ \E s \in Scenarios :
         LET mem == mem_write(load_words(memory, ImageData), s.origin, s.instr)
             rf  == reg_store(
                      reg_store(
                        reg_store(store_regs(reg, ImageRegs, 1), R6, s.r6),
                        PSR, s.psr),
                      PC, s.origin)
         IN  /\ reg' = rf
             /\ memory' = mem
             /\ prev' = [reg |-> rf, memory |-> mem]
    /\ phase' = "ready"
    /\ UNCHANGED <<result, ticks, running, call>>

(* One call of CPU::tick, in a build with (oc) or without overflow checks. *)
Tick ==
    /\ phase = "ready"
    /\ ticks < MaxSteps
    /\ \E oc \in BOOLEAN :
         LET t == tick(reg, memory, oc)
         IN  /\ reg' = t.reg
             /\ memory' = t.memory
             /\ result' = t.result
             /\ phase' = IF t.result = "panic" THEN "dead" ELSE "ready"
    /\ prev' = [reg |-> reg, memory |-> memory]
    /\ ticks' = ticks + 1
    /\ UNCHANGED <<running, call>>

Next == Setup \/ Tick

Spec == Init /\ [][Next]_vars

----------------------------------------------------------------------------
(* The operations of the register file and of the memory called directly,  *)
(* each write followed by the read of what it wrote: Register::write and   *)
(* read, CPU::mem_write and mem_read, set_mode and get_mode, set_level and *)
(* get_level.  call records the arguments and what the read returned.      *)

MaxCalls == 2

ApiWords == {0, 1, 32768, 65535}

ApiAddrs == {0, PC_START, 65535}

WriteRead ==
    /\ ticks < MaxCalls
    /\ \E r \in RegIndex, v \in ApiWords :
         LET rf == write(reg, r, v)
         IN  /\ reg' = rf
             /\ call' = [op |-> "write_read", arg1 |-> r, arg2 |-> v,
                         ret |-> read(rf, r)]
    /\ ticks' = ticks + 1
    /\ UNCHANGED <<memory, result, prev, phase, running>>

MemWriteRead ==
    /\ ticks < MaxCalls
    /\ \E addr \in ApiAddrs, v \in ApiWords :
         LET mem == mem_write(memory, addr, v)
         IN  /\ memory' = mem
             /\ call' = [op |-> "mem_write_read", arg1 |-> addr, arg2 |-> v,
                         ret |-> mem_read(mem, addr)]
    /\ ticks' = ticks + 1
    /\ UNCHANGED <<reg, result, prev, phase, running>>

SetModeGetMode ==
    /\ ticks < MaxCalls
    /\ \E m \in {Privilege, User} :
         LET rf == set_mode(reg, m)
         IN  /\ reg' = rf
             /\ call' = [op |-> "set_mode_get_mode", arg1 |-> m, arg2 |-> 0,
                         ret |-> get_mode(rf)]
    /\ ticks' = ticks + 1
    /\ UNCHANGED <<memory, result, prev, phase, running>>

SetLevelGetLevel ==
    /\ ticks < MaxCalls
    /\ \E lv \in 0 .. 7 :
         LET rf == set_level(reg, lv)
         IN  /\ reg' = rf
             /\ call' = [op |-> "set_level_get_level", arg1 |-> lv, arg2 |-> 0,
                         ret |-> get_level(rf)]
    /\ ticks' = ticks + 1
    /\ UNCHANGED <<memory, result, prev, phase, running>>

NextApi == WriteRead \/ MemWriteRead \/ SetModeGetMode \/ SetLevelGetLevel

SpecApi == Init /\ [][NextApi]_vars

----------------------------------------------------------------------------
(* sign_extend of lib.rs applied to every value of every field width the   *)
(* handlers pass: 5 (imm5), 6 (offset6), 9 (PCoffset9), 11 (PCoffset11).   *)

SignWidths == {5, 6, 9, 11}

InitSignExtend ==
    /\ reg = CPU_new.register
    /\ memory = CPU_new.memory
    /\ result = "none"
    /\ prev = [reg |-> CPU_new.register, memory |-> CPU_new.memory]
    /\ phase = "new"
    /\ ticks = 0
    /\ running = FALSE
    /\ \E n \in SignWidths :
         \E x \in 0 .. (Pow2(n) - 1) :
           call = [op |-> "input", arg1 |-> x, arg2 |-> n, ret |-> 0]

ApplySignExtend ==
    /\ call.op = "input"
    /\ call' = [op |-> "sign_extend", arg1 |-> call.arg1, arg2 |-> call.arg2,
                ret |-> sign_extend(call.arg1, call.arg2)]
    /\ UNCHANGED <<reg, memory, result, prev, phase, ticks, running>>

SpecSignExtend == InitSignExtend /\ [][ApplySignExtend]_vars

----------------------------------------------------------------------------
(* The two engines side by side.  A CPU and a VM are given the same        *)
(* register file and the same memory, and then each takes its steps,       *)
(* CPU::tick on reg and memory, VM::next on the VM's own copy, which is    *)
(* held in call: [op |-> "vm", reg, memory, result].  Both engines are     *)
(* compiled in one crate, hence with the same overflow checks.             *)

PairSetup ==
    /\ phase = "new"
    /\ \E s \in Scenarios :
         LET mem == mem_write(load_words(memory, ImageData), s.origin, s.instr)
             rf  == reg_store(
                      reg_store(
                        reg_store(store_regs(reg, ImageRegs, 1), R6, s.r6),
                        PSR, s.psr),
                      PC, s.origin)
         IN  /\ reg' = rf
             /\ memory' = mem
             /\ prev' = [reg |-> rf, memory |-> mem]
             /\ call' = [op |-> "vm", reg |-> rf, memory |-> mem,
                         result |-> "none"]
    /\ running' = TRUE
    /\ phase' = "ready"
    /\ UNCHANGED <<result, ticks>>

PairStep ==
    /\ phase = "ready"
    /\ ticks < MaxSteps
    /\ \E oc \in BOOLEAN :
         LET t == tick(reg, memory, oc)
             n == VM_next(call.reg, call.memory, running, oc)
         IN  /\ reg' = t.reg
             /\ memory' = t.memory
             /\ result' = t.result
             /\ call' = [op |-> "vm", reg |-> n.reg, memory |-> n.memory,
                         result |-> n.result]
             /\ running' = n.running
             /\ phase' = IF t.result = "panic" \/ n.result = "panic"
                         THEN "dead" ELSE "ready"
    /\ prev' = [reg |-> reg, memory |-> memory]
    /\ ticks' = ticks + 1

NextPair == PairSetup \/ PairStep

SpecPair == Init /\ [][NextPair]_vars

----------------------------------------------------------------------------
(* The driving loop of src/src/main.rs over the engine of src/src/vm.rs:   *)
(*     boot; while vm.is_running() { if Err = vm.next() { vm.abort() } }   *)
(* phase is the position of the program: "new" before boot, "loop" at the  *)
(* test of the while, "body" before vm.next(), "report" inside the if,     *)
(* before vm.abort(), "exit" after the loop, "dead" after a panic.         *)
(* The machine's memory is filled through write_memory before boot: one    *)
(* instruction word at the boot offset and the cells of ImageData.         *)

VMScenarios == [instr : SampleInstrs, origin : SampleOrigins]

RECURSIVE VM_load_words(_, _)
VM_load_words(mem, ws) ==
    IF ws = <<>> THEN mem
    ELSE VM_load_words(write_memory(mem, Head(ws)[1], Head(ws)[2]), Tail(ws))

VMSetup ==
    /\ phase = "new"
    /\ \E s \in VMScenarios :
         LET vm  == VM_default
             mem == write_memory(VM_load_words(vm.memory, ImageData),
                                 s.origin, s.instr)
             b   == VM_boot(vm.register, vm.running, s.origin)
         IN  /\ reg' = b.reg
             /\ memory' = mem
             /\ running' = b.running
             /\ prev' = [reg |-> b.reg, memory |-> mem]
    /\ phase' = "loop"
    /\ UNCHANGED <<result, ticks, call>>

(* while vm.is_running()                                                   *)
VMTest ==
    /\ phase = "loop"
    /\ phase' = IF VM_is_running(running) THEN "body" ELSE "exit"
    /\ UNCHANGED <<reg, memory, result, prev, ticks, running, call>>

(* if let Err(code) = vm.next()                                            *)
VMNext ==
    /\ phase = "body"
    /\ ticks < MaxSteps
    /\ \E oc \in BOOLEAN :
         LET t == VM_next(reg, memory, running, oc)
         IN  /\ reg' = t.reg
             /\ memory' = t.memory
             /\ result' = t.result
             /\ running' = t.running
             /\ phase' = IF t.result = "panic" THEN "dead"
                         ELSE IF t.result = "ok" THEN "loop"
                         ELSE "report"
    /\ prev' = [reg |-> reg, memory |-> memory]
    /\ ticks' = ticks + 1
    /\ UNCHANGED call

(* eprintln!(..); vm.abort();                                              *)
VMAbort ==
    /\ phase = "report"
    /\ running' = VM_abort(running)
    /\ phase' = "loop"
    /\ UNCHANGED <<reg, memory, result, prev, ticks, call>>

NextVM == VMSetup \/ VMTest \/ VMNext \/ VMAbort

(* The program is sequential code: a statement that can run does run.      *)
SpecVM == Init /\ [][NextVM]_vars /\ WF_vars(NextVM)

----------------------------------------------------------------------------
(* Vocabulary of the properties.  The fields of an instruction word and    *)
(* sign extension are stated arithmetically, independently of the bit      *)
(* operations the engine uses.                                             *)

(* The last tick fetched its instruction: a tick was called and did not    *)
(* panic in the fetch's own increment of PC.                               *)
Fetched ==
    /\ result # "none"
    /\ ~(result = "panic" /\ prev.reg[PC] = Modulus - 1)

(* The address the last tick fetched from, and the word it fetched.        *)
LastAddr == prev.reg[PC]

LastInstr ==
    IF LastAddr \in DOMAIN prev.memory THEN prev.memory[LastAddr] ELSE 0

(* LastAddr + 1, the program counter after the fetch.                      *)
NextAddr == (LastAddr + 1) % Modulus

OpOf(w) == w \div 4096

(* Bits hi..lo of w as a number.                                           *)
Field(w, hi, lo) == (w \div (2 ^ lo)) % (2 ^ (hi - lo + 1))

(* The n-bit two's-complement number x as a 16-bit word.                   *)
SignExt(x, n) == IF x >= 2 ^ (n - 1) THEN x + Modulus - 2 ^ n ELSE x

Executed(op) == Fetched /\ OpOf(LastInstr) = op

FlagBits(psr) == psr % 8

UserMode(psr) == psr \div 32768 = 1

MemAt(mem, addr) == IF addr \in DOMAIN mem THEN mem[addr] ELSE 0

(* The registers in rs hold what they held before the last tick.           *)
SameRegs(rs) == \A r \in rs : reg[r] = prev.reg[r]

----------------------------------------------------------------------------
(* C1: in every reachable state, the initial one included, exactly one of  *)
(* PSR bits 0, 1, 2 is 1.  The constructed machine has PSR = 0, and RTI    *)
(* loads PSR from memory unchecked, so the code does not keep this.        *)
C1_ExactlyOneFlag == FlagBits(reg[PSR]) \in {1, 2, 4}

(* C2: a step that fetches RTI while PSR bit 15 is 1 returns the           *)
(* illegal-privilege-transition error.  get_mode shifts the status word    *)
(* right by 15 twice, reads Privilege in every state, and RTI pops.        *)
C2_RtiUserModeFails ==
    (Executed(8) /\ UserMode(prev.reg[PSR]))
        => result = "illegal RTI from user mode"

(* C3: a step that fetches RTI in Privileged mode with R6 = a < 0xFFFE     *)
(* succeeds with PC = mem[a], PSR = mem[a+1], R6 = a+2, and R0-R5, R7 and  *)
(* all of memory unchanged.                                                *)
C3_RtiPrivilegedPops ==
    (Executed(8) /\ ~UserMode(prev.reg[PSR]) /\ prev.reg[R6] < 65534)
        => /\ result = "ok"
           /\ reg[PC] = MemAt(prev.memory, prev.reg[R6])
           /\ reg[PSR] = MemAt(prev.memory, prev.reg[R6] + 1)
           /\ reg[R6] = prev.reg[R6] + 2
           /\ SameRegs((0 .. 5) \cup {R7})
           /\ memory = prev.memory

C3_Witness ==
    /\ Executed(8)
    /\ ~UserMode(prev.reg[PSR])
    /\ prev.reg[R6] = 65533
    /\ result = "ok"
    /\ reg[PC] = 12291
    /\ reg[PSR] = 32769
    /\ reg[R6] = 65535

(* C4 as written: a step that fetches opcode 1101 returns the              *)
(* reserved-opcode error and leaves every register slot, PC included, and  *)
(* every memory word as before the step.                                   *)
C4_ReservedNoMutation ==
    Executed(13)
        => /\ result = "reserved opcode"
           /\ reg = prev.reg
           /\ memory = prev.memory

(* C4 amended: a step that fetches opcode 1101 returns the                 *)
(* reserved-opcode error and leaves R0-R7, PSR and every memory word as    *)
(* before; PC is the address of the instruction plus one (mod 2^16).       *)
C4_ReservedOnlyAdvancesPC ==
    Executed(13)
        => /\ result = "reserved opcode"
           /\ SameRegs((0 .. 7) \cup {PSR})
           /\ reg[PC] = NextAddr
           /\ memory = prev.memory

C4_Witness ==
    /\ Executed(13)
    /\ LastInstr = 57343
    /\ result = "reserved opcode"
    /\ prev.reg[PC] = PC_START
    /\ reg[PC] = PC_START + 1

(* C5: whenever a BR fetched at address a is taken (N/Z/P = 000, or one    *)
(* of the bits matches the current flag), the step ends with               *)
(* PC = (a + 1 + sign_extend(bits 8..0, 9)) mod 2^16.  The handler masks   *)
(* the instruction with 0x9, not 0x1ff, and applies 0, 1, 8 or 9.          *)
BrRequested(w, psr) ==
    \/ Field(w, 11, 9) = 0
    \/ /\ FlagBits(psr) \in {1, 2, 4}
       /\ (Field(w, 11, 9) \div FlagBits(psr)) % 2 = 1

C5_BrTakenTarget ==
    (Executed(0) /\ BrRequested(LastInstr, prev.reg[PSR]))
        => reg[PC] = (NextAddr + SignExt(Field(LastInstr, 8, 0), 9)) % Modulus

(* C6: for a BR with at least one of the bits 11, 10, 9 set and a valid    *)
(* current flag, the branch is taken if and only if the bit of the current *)
(* flag is set in the instruction; when it is not taken the step only      *)
(* advances PC by one.  The displacement of a taken branch is the one the  *)
(* unconditional BR with the same offset field applies.                    *)
BrDisplacement(w) ==
    mnemonic_br([Register_new EXCEPT ![PC] = 0], <<>>, w % 512).reg[PC]

C6_BrConditional ==
    (/\ Executed(0)
     /\ Field(LastInstr, 11, 9) # 0
     /\ FlagBits(prev.reg[PSR]) \in {1, 2, 4})
        => /\ result = "ok"
           /\ SameRegs((0 .. 7) \cup {PSR})
           /\ memory = prev.memory
           /\ reg[PC] = IF BrRequested(LastInstr, prev.reg[PSR])
                        THEN (NextAddr + BrDisplacement(LastInstr)) % Modulus
                        ELSE NextAddr

(* A conditional BR that is taken and moves PC ...                         *)
C6_Witness ==
    /\ Executed(0)
    /\ LastInstr = 2049                  \* BRn with offset field 1
    /\ FlagBits(prev.reg[PSR]) = 4
    /\ result = "ok"
    /\ reg[PC] = (NextAddr + 1) % Modulus

(* C7: for every ADD or AND word, the step stores op(v1, v2) into the      *)
(* register named by bits 11..9, where v1 is the pre-step value of the     *)
(* register named by bits 8..6 and v2 is sign_extend(bits 4..0, 5) when    *)
(* bit 5 is 1 and otherwise the pre-step value of the register named by    *)
(* bits 2..0; op is addition mod 2^16 for ADD and bitwise AND for AND.     *)
AluOperand2(w) ==
    IF Field(w, 5, 5) = 1
    THEN SignExt(Field(w, 4, 0), 5)
    ELSE prev.reg[Field(w, 2, 0)]

C7_AluResult ==
    (Executed(1) \/ Executed(5))
        => /\ result = "ok"
           /\ reg[Field(LastInstr, 11, 9)] =
                IF OpOf(LastInstr) = 1
                THEN (prev.reg[Field(LastInstr, 8, 6)]
                        + AluOperand2(LastInstr)) % Modulus
                ELSE BitAnd(prev.reg[Field(LastInstr, 8, 6)],
                            AluOperand2(LastInstr))

(* ADD R1, R1, R2 with R1 = 0xFFFF and R2 = 1: the destination is a        *)
(* source and the sum wraps to 0.                                          *)
C7_Witness ==
    /\ Executed(1)
    /\ LastInstr = 4674
    /\ prev.reg[1] = 65535
    /\ prev.reg[2] = 1
    /\ reg[1] = 0
    /\ result = "ok"

(* C8: after every successful step that executes ADD, AND, NOT, LD, LDI,   *)
(* LDR or LEA, PSR bits 0..2 are the sign class of the new value of the    *)
(* destination register: 010 for 0, 100 when bit 15 is 1, 001 otherwise.   *)
FlagOpcodes == {1, 5, 9, 2, 10, 6, 14}

SignClass(v) == IF v = 0 THEN 2 ELSE IF v >= 32768 THEN 4 ELSE 1

C8_FlagIsSignClass ==
    (Fetched /\ OpOf(LastInstr) \in FlagOpcodes /\ result = "ok")
        => FlagBits(reg[PSR]) = SignClass(reg[Field(LastInstr, 11, 9)])

(* LD R0 of the word 0xFFFF at 0x2FFF turns a Zero flag into Negative.     *)
C8_Witness ==
    /\ Executed(2)
    /\ LastInstr = 8702
    /\ result = "ok"
    /\ FlagBits(prev.reg[PSR]) = 2
    /\ reg[0] = 65535
    /\ FlagBits(reg[PSR]) = 4

(* C9: every flag update leaves PSR bits 3..15 unchanged: a step that      *)
(* executes ADD, AND, NOT, LD, LDI, LDR or LEA, and set_flag and           *)
(* update_flag applied to the register file of any reachable state.        *)
HighBits(psr) == psr \div 8

C9_FlagUpdateKeepsHighBits ==
    /\ (Fetched /\ OpOf(LastInstr) \in FlagOpcodes)
         => HighBits(reg[PSR]) = HighBits(prev.reg[PSR])
    /\ \A f \in {Positive, Zero, Negative} :
         HighBits(set_flag(reg, f)[PSR]) = HighBits(reg[PSR])
    /\ \A r \in 0 .. 7 :
         HighBits(update_flag(reg, r)[PSR]) = HighBits(reg[PSR])

(* ADD R1, R1, R1 under PSR = 0x7FF9: the flag goes from Positive to       *)
(* Negative and bits 3..14 stay set.                                       *)
C9_Witness ==
    /\ Executed(1)
    /\ LastInstr = 4673
    /\ prev.reg[PSR] = 32761
    /\ reg[PSR] = 32764

(* C10: after a step that executes a JSR fetched at address a, R7 = a + 1  *)
(* (mod 2^16); with bit 11 set, PC = (a + 1 + sign_extend(bits 10..0, 11)) *)
(* mod 2^16; with bit 11 clear, PC is the value of the register named by   *)
(* bits 8..6, which is its pre-step value for R0-R6 and the new R7 for R7; *)
(* PSR, R0-R6 and memory are unchanged.                                    *)
C10_JsrSaveAndJump ==
    Executed(4)
        => /\ result = "ok"
           /\ reg[R7] = NextAddr
           /\ Field(LastInstr, 11, 11) = 1
                => reg[PC] =
                     (NextAddr + SignExt(Field(LastInstr, 10, 0), 11)) % Modulus
           /\ Field(LastInstr, 11, 11) = 0
                => /\ reg[PC] = reg[Field(LastInstr, 8, 6)]
                   /\ Field(LastInstr, 8, 6) # R7
                        => reg[PC] = prev.reg[Field(LastInstr, 8, 6)]
           /\ SameRegs((0 .. 6) \cup {PSR})
           /\ memory = prev.memory

(* JSR with offset -1 links 0x3001 and jumps back to the JSR itself.       *)
C10_Witness ==
    /\ Executed(4)
    /\ LastInstr = 20479
    /\ LastAddr = PC_START
    /\ reg[R7] = PC_START + 1
    /\ reg[PC] = PC_START

(* C11: after a step that executes an LDI fetched at address a, the        *)
(* destination register (bits 11..9) holds                                 *)
(* mem[mem[(a + 1 + sign_extend(bits 8..0, 9)) mod 2^16]], both words read *)
(* from the memory before the step, and memory is unchanged.               *)
C11_LdiDoubleIndirection ==
    Executed(10)
        => /\ result = "ok"
           /\ reg[Field(LastInstr, 11, 9)] =
                MemAt(prev.memory,
                      MemAt(prev.memory,
                            (NextAddr + SignExt(Field(LastInstr, 8, 0), 9))
                                % Modulus))
           /\ memory = prev.memory

(* LDI R0 with offset 1 at 0x3000: mem[0x3002] = 0x4000 and                *)
(* mem[0x4000] = 0x5000.                                                   *)
C11_Witness ==
    /\ Executed(10)
    /\ LastInstr = 40961
    /\ LastAddr = PC_START
    /\ MemAt(prev.memory, 12290) = 16384
    /\ MemAt(prev.memory, 16384) = 20480
    /\ reg[0] = 20480
    /\ result = "ok"

(* C12: for every register name and value v, write(name, v) followed by    *)
(* read(name) returns v, and memory write(addr, v) followed by read(addr)  *)
(* returns v (checked under SpecApi).                                      *)
C12_WriteReadRoundTrip ==
    /\ call.op = "write_read"
         => /\ call.ret = call.arg2
            /\ reg[call.arg1] = call.arg2
    /\ call.op = "mem_write_read"
         => /\ call.ret = call.arg2
            /\ MemAt(memory, call.arg1) = call.arg2

(* 0xFFFF written to PSR and read back, after an earlier write.            *)
C12_Witness ==
    /\ call.op = "write_read"
    /\ call.arg1 = PSR
    /\ call.arg2 = 65535
    /\ call.ret = 65535
    /\ ticks = 2

(* C14: set_mode(m) followed by get_mode() returns m, for both modes, and  *)
(* set_level(p) followed by get_level() returns p, for p in 0..7 (checked  *)
(* under SpecApi).  get_mode hands PSR >> 15 to Mode::try_from, which      *)
(* shifts by 15 again, and get_level hands (PSR >> 7) & 7 to               *)
(* PL::try_from, which shifts by 7 again: both read 0 in every state.      *)
C14_ModeLevelRoundTrip ==
    /\ call.op = "set_mode_get_mode"
         => /\ call.ret = Ok(call.arg1)
            /\ (call.arg1 = User) <=> (reg[PSR] \div 32768 = 1)
    /\ call.op = "set_level_get_level"
         => /\ call.ret = Ok(call.arg1)
            /\ call.arg1 = (reg[PSR] \div 128) % 8

(* C13: for every width n in {5, 6, 9, 11} and every x < 2^n,              *)
(* sign_extend(x, n) is x when bit n-1 of x is 0 and x + (2^16 - 2^n) when *)
(* it is 1 (checked under SpecSignExtend).                                 *)
C13_SignExtend ==
    call.op = "sign_extend"
        => call.ret = IF (call.arg1 \div (2 ^ (call.arg2 - 1))) % 2 = 1
                      THEN call.arg1 + (Modulus - 2 ^ call.arg2)
                      ELSE call.arg1

(* sign_extend(0x1FF, 9) = 0xFFFF                                          *)
C13_Witness ==
    /\ call.op = "sign_extend"
    /\ call.arg1 = 511
    /\ call.arg2 = 9
    /\ call.ret = 65535

(* C15: in the driving loop, once a step has returned failure no further   *)
(* step is performed, abort is invoked and the loop is left with running   *)
(* false; from boot until that abort running is true, and a step that      *)
(* succeeds does not clear it.                                             *)
StepFailed == result \notin {"none", "ok", "panic"}

C15_RunningUntilAbort ==
    /\ (phase \in {"body", "report"}) => running
    /\ (phase = "loop" /\ ~StepFailed) => running
    /\ (phase = "exit") => (~running /\ StepFailed)

C15_LoopHaltsOnFailure ==
    /\ []C15_RunningUntilAbort
    /\ [][StepFailed => ticks' = ticks]_vars
    /\ [][(phase = "body" /\ result' = "ok") => running' = running]_vars
    /\ [][(phase = "report") => (phase' = "loop" /\ ~running')]_vars
    /\ (StepFailed ~> (phase = "exit"))

C15_Witness ==
    /\ phase = "exit"
    /\ ~running
    /\ StepFailed
    /\ ticks = 1

(* C16: whenever a step returns failure, R0..R7, PSR and the memory hold   *)
(* the values they held before the step; only the program counter has      *)
(* moved, by one.                                                          *)
C16_FailureKeepsState ==
    (Fetched /\ result \notin {"ok", "panic"}) =>
        /\ SameRegs((0 .. 7) \cup {PSR})
        /\ reg[PC] = NextAddr
        /\ memory = prev.memory

(* A conditional branch with a non-zero displacement field has failed.     *)
C16_Witness ==
    /\ Executed(0)
    /\ result \notin {"ok", "panic"}
    /\ LastInstr % 16 \in {1, 8, 9}
    /\ reg[PC] = NextAddr

(* C19: BR returns the status-word decode error exactly when its NZP bits  *)
(* are not all zero and PSR bits 0..2 are none of 001, 010, 100; a BR with *)
(* NZP = 000 never fails, and a conditional BR on the PSR of a fresh       *)
(* machine (flag bits 000) fails.                                          *)
C19_BrFlagDecodeError ==
    Executed(0) =>
        /\ result \in {"ok", "wrong overflow flag"}
        /\ (result = "wrong overflow flag") <=>
              /\ Field(LastInstr, 11, 9) # 0
              /\ FlagBits(prev.reg[PSR]) \notin {1, 2, 4}
        /\ (Field(LastInstr, 11, 9) = 0) => result = "ok"
        /\ (Field(LastInstr, 11, 9) # 0 /\ prev.reg[PSR] = 0) => result # "ok"

(* A conditional BR has failed on the status word of a fresh machine, and  *)
C19_Witness ==
    /\ Executed(0)
    /\ Field(LastInstr, 11, 9) # 0
    /\ prev.reg[PSR] = 0
    /\ result = "wrong overflow flag"

(* an unconditional BR has run on a status word with invalid flag bits.    *)
C19_WitnessUnconditional ==
    /\ Executed(0)
    /\ Field(LastInstr, 11, 9) = 0
    /\ FlagBits(prev.reg[PSR]) \notin {1, 2, 4}
    /\ result = "ok"

(* C17: read_then_increment wraps modulo 2^16: a step taken with the       *)
(* program counter at 0xFFFF fetches from 0xFFFF and goes on with the      *)
(* program counter at 0, without a crash, and an RTI whose stack pointer   *)
(* reaches 0xFFFF wraps R6.                                                *)
C17_IncrementWraps ==
    /\ (result # "none" /\ prev.reg[PC] = Modulus - 1) => result # "panic"
    /\ (result # "none" /\ OpOf(LastInstr) = 8
          /\ prev.reg[R6] \in {Modulus - 2, Modulus - 1}) => result # "panic"
    /\ (result = "ok" /\ OpOf(LastInstr) = 8) =>
          reg[R6] = (prev.reg[R6] + 2) % Modulus

(* C18: JSR in register mode with base register R7 leaves the program      *)
(* counter at the value R7 held before the step, and R7 at a + 1.          *)
C18_JsrrBaseR7 ==
    (Executed(4) /\ result = "ok"
        /\ Field(LastInstr, 11, 11) = 0 /\ Field(LastInstr, 8, 6) = 7) =>
        /\ reg[PC] = prev.reg[R7]
        /\ reg[R7] = NextAddr

(* C20: a machine in user mode stays in user mode whatever step it takes,  *)
(* and PSR bits 3..15 are changed by no step but an RTI taken in           *)
(* privileged mode.                                                        *)
C20_NoPrivilegeEscalation ==
    /\ (Fetched /\ UserMode(prev.reg[PSR])) => UserMode(reg[PSR])
    /\ (Fetched /\ reg[PSR] \div 8 # prev.reg[PSR] \div 8) =>
          (OpOf(LastInstr) = 8 /\ ~UserMode(prev.reg[PSR]))

(* C21: the two engines are step-equivalent: started from the same         *)
(* register file and memory, CPU::tick and VM::next return the same result *)
(* (success, or failure with the same error) and leave the same registers  *)
(* and the same memory, after every step of every sequence of steps.       *)
C21_StepEquivalent ==
    (call.op = "vm") =>
        /\ call.result = result
        /\ call.reg = reg
        /\ call.memory = memory

(* Both engines have taken an RTI on a status word with bit 15 set, the    *)
(* one place where the text of the two engines differs.                    *)
C21_Witness ==
    /\ call.op = "vm"
    /\ Executed(8)
    /\ UserMode(prev.reg[PSR])
    /\ call.result = "ok"
    /\ call.reg = reg
    /\ reg[PC] = MemAt(prev.memory, prev.reg[R6])

============================================================================
